---- MODULE Spec2Model ----
(***************************************************************************)
(* Model of the environmental-data aggregation route (server/routes/alerts) *)
(* and of the chat route (server/routes/chat) of orpheusAI.                 *)
(*                                                                          *)
(* Strings that the code inspects character by character (chat messages,    *)
(* upstream texts) are sequences of one-character strings.  Time is in      *)
(* milliseconds, as Date.now() gives it.                                    *)
(***************************************************************************)
EXTENDS Integers, Sequences, FiniteSets, TLC

VARIABLES
  env,            \* process.env: which API keys are set, NODE_ENV
  chat,           \* chat requests (POST /send), one record per request
  now,            \* Date.now(), in milliseconds
  cache,          \* the NodeCache of the alerts router: key -> [v, t]
  apiCallLimiter, \* the Map of the rate limiter: identifier -> timestamps
  agg,            \* aggregation requests (POST /environmental-data)
  served,         \* number of aggregation requests that have arrived
  lim,            \* history of the calls of checkRateLimit (for the claims)
  probe           \* the last response of GET /health and GET /cache/stats

vars == <<env, chat, now, cache, apiCallLimiter, agg, served, lim, probe>>

-----------------------------------------------------------------------------
(* Character helpers                                                        *)

UPPER == <<"A","B","C","D","E","F","G","H","I","J","K","L","M",
           "N","O","P","Q","R","S","T","U","V","W","X","Y","Z">>
LOWER == <<"a","b","c","d","e","f","g","h","i","j","k","l","m",
           "n","o","p","q","r","s","t","u","v","w","x","y","z">>

\* the small letter of each capital
Small ==
  [c \in {UPPER[i] : i \in 1..Len(UPPER)} |->
     LOWER[CHOOSE i \in 1..Len(UPPER) : UPPER[i] = c]]

\* String.prototype.toLowerCase on one character
LowerChar(c) == IF c \in DOMAIN Small THEN Small[c] ELSE c

toLowerCase(s) == [i \in 1..Len(s) |-> LowerChar(s[i])]

\* s.includes(k): k occurs in s as a contiguous substring
includes(s, k) ==
  \E i \in 0..(Len(s) - Len(k)) : \A j \in 1..Len(k) : s[i + j] = k[j]

\* the characters String.prototype.trim removes
IsSpace(c) == c \in {" ", "\n", "\t"}

\* s.trim() is empty
TrimIsEmpty(s) == \A i \in 1..Len(s) : IsSpace(s[i])

-----------------------------------------------------------------------------
(* Query classifier: determineAiSource                                      *)

realTimeKeywords ==
  <<
      <<"n","e","w","s">>,
      <<"b","r","e","a","k","i","n","g">>,
      <<"l","a","t","e","s","t">>,
      <<"r","e","c","e","n","t">>,
      <<"t","o","d","a","y">>,
      <<"y","e","s","t","e","r","d","a","y">>,
      <<"t","h","i","s"," ","w","e","e","k">>,
      <<"c","u","r","r","e","n","t"," ","e","v","e","n","t","s">>,
      <<"h","a","p","p","e","n","i","n","g"," ","n","o","w">>,
      <<"l","i","v","e">>,
      <<"u","p","d","a","t","e">>,
      <<"a","n","n","o","u","n","c","e","m","e","n","t">>,
      <<"p","r","e","s","s"," ","r","e","l","e","a","s","e">>,
      <<"w","e","a","t","h","e","r">>,
      <<"t","e","m","p","e","r","a","t","u","r","e">>,
      <<"r","a","i","n">>,
      <<"s","n","o","w">>,
      <<"f","o","r","e","c","a","s","t">>,
      <<"c","l","i","m","a","t","e">>,
      <<"s","t","o","r","m">>,
      <<"h","u","r","r","i","c","a","n","e">>,
      <<"s","u","n","n","y">>,
      <<"c","l","o","u","d","y">>,
      <<"w","i","n","d">>,
      <<"h","u","m","i","d","i","t","y">>,
      <<"v","e","r","i","f","y">>,
      <<"f","a","c","t"," ","c","h","e","c","k">>,
      <<"i","s"," ","i","t"," ","t","r","u","e">>,
      <<"c","o","n","f","i","r","m">>,
      <<"v","a","l","i","d","a","t","e">>,
      <<"c","h","e","c","k"," ","i","f">>,
      <<"r","e","a","l"," ","o","r"," ","f","a","k","e">>,
      <<"s","t","o","c","k"," ","p","r","i","c","e">>,
      <<"m","a","r","k","e","t">>,
      <<"t","r","a","d","i","n","g">>,
      <<"n","a","s","d","a","q">>,
      <<"d","o","w"," ","j","o","n","e","s">>,
      <<"c","r","y","p","t","o","c","u","r","r","e","n","c","y">>,
      <<"b","i","t","c","o","i","n">>,
      <<"s","c","o","r","e">>,
      <<"g","a","m","e"," ","r","e","s","u","l","t">>,
      <<"m","a","t","c","h">>,
      <<"t","o","u","r","n","a","m","e","n","t">>,
      <<"c","h","a","m","p","i","o","n","s","h","i","p">>,
      <<"p","l","a","y","o","f","f","s">>,
      <<"t","r","a","f","f","i","c">>,
      <<"r","o","a","d"," ","c","o","n","d","i","t","i","o","n","s">>,
      <<"a","c","c","i","d","e","n","t">>,
      <<"c","o","n","s","t","r","u","c","t","i","o","n">>,
      <<"t","r","a","n","s","i","t">>,
      <<"f","l","i","g","h","t"," ","s","t","a","t","u","s">>,
      <<"r","i","g","h","t"," ","n","o","w">>,
      <<"a","t"," ","t","h","i","s"," ","m","o","m","e","n","t">>,
      <<"c","u","r","r","e","n","t","l","y">>,
      <<"a","s"," ","o","f"," ","t","o","d","a","y">>,
      <<"r","e","a","l"," ","t","i","m","e">>,
      <<"l","i","v","e"," ","d","a","t","a">>,
      <<"s","t","a","t","u","s">>,
      <<"a","v","a","i","l","a","b","i","l","i","t","y">>,
      <<"o","p","e","n"," ","n","o","w">>,
      <<"c","l","o","s","e","d">>,
      <<"h","o","u","r","s"," ","o","f"," ","o","p","e","r","a","t","i","o","n">>,
      <<"u","p","c","o","m","i","n","g">>,
      <<"t","h","i","s"," ","y","e","a","r">>,
      <<"t","h","i","s"," ","m","o","n","t","h">>,
      <<"n","e","x","t"," ","w","e","e","k">>,
      <<"n","e","x","t"," ","d","a","y">>,
      <<"a","s"," ","o","f"," ","n","o","w">>,
      <<"t","o","m","o","r","r","o","w">>
  >>

\* the regular expression x.*y with flag i, tested anywhere in q: x occurs,
\* y occurs at or after its end, and no line terminator lies between them
\* (. does not match a line terminator)
MatchesDotStar2(q, x, y) ==
  LET l == toLowerCase(q)
  IN \E i \in 0..(Len(l) - Len(x)) :
       /\ \A j \in 1..Len(x) : l[i + j] = x[j]
       /\ \E m \in (i + Len(x))..(Len(l) - Len(y)) :
            /\ \A j \in 1..Len(y) : l[m + j] = y[j]
            /\ \A p \in (i + Len(x) + 1)..m : l[p] # "\n"

\* x.*y.*z with flag i
MatchesDotStar3(q, x, y, z) ==
  LET l == toLowerCase(q)
  IN \E i \in 0..(Len(l) - Len(x)) :
       /\ \A j \in 1..Len(x) : l[i + j] = x[j]
       /\ \E m \in (i + Len(x))..(Len(l) - Len(y)) :
            /\ \A j \in 1..Len(y) : l[m + j] = y[j]
            /\ \A p \in (i + Len(x) + 1)..m : l[p] # "\n"
            /\ \E n \in (m + Len(y))..(Len(l) - Len(z)) :
                 /\ \A j \in 1..Len(z) : l[n + j] = z[j]
                 /\ \A p \in (m + Len(y) + 1)..n : l[p] # "\n"

timeSensitivePatterns(q) ==
  \/ MatchesDotStar3(q, <<"w","h","a","t">>, <<"h","a","p","p","e","n","e","d">>,
                        <<"t","o","d","a","y">>)
  \/ MatchesDotStar3(q, <<"w","h","a","t">>, <<"h","a","p","p","e","n","i","n","g">>,
                        <<"t","o","d","a","y">>)
  \/ MatchesDotStar2(q, <<"l","a","t","e","s","t">>, <<"o","n">>)
  \/ MatchesDotStar2(q, <<"c","u","r","r","e","n","t">>, <<"s","t","a","t","u","s">>)
  \/ MatchesDotStar3(q, <<"i","s">>, <<"o","p","e","n">>, <<"n","o","w">>)
  \/ MatchesDotStar2(q, <<"w","e","a","t","h","e","r">>, <<"i","n">>)
  \/ MatchesDotStar2(q, <<"n","e","w","s">>, <<"a","b","o","u","t">>)
  \/ MatchesDotStar2(q, <<"s","t","o","c","k">>, <<"p","r","i","c","e">>)
  \/ MatchesDotStar2(q, <<"v","e","r","i","f","y">>, <<"t","h","a","t">>)
  \/ MatchesDotStar2(q, <<"f","a","c","t">>, <<"c","h","e","c","k">>)

\* determineAiSource that looks for the keywords in the query as typed
determineAiSourceAsTyped(query) ==
  LET needsRealTimeInfo ==
        \E n \in 1..Len(realTimeKeywords) : includes(query, realTimeKeywords[n])
      hasTimeSensitivePattern == timeSensitivePatterns(query)
  IN IF needsRealTimeInfo \/ hasTimeSensitivePattern THEN "perplexity" ELSE "gemini"

determineAiSource(query) ==
  LET queryLower == toLowerCase(query)
      needsRealTimeInfo ==
        \E n \in 1..Len(realTimeKeywords) : includes(queryLower, realTimeKeywords[n])
      hasTimeSensitivePattern == timeSensitivePatterns(query)
  IN IF needsRealTimeInfo \/ hasTimeSensitivePattern THEN "perplexity" ELSE "gemini"

-----------------------------------------------------------------------------
(* Chat route: POST /send                                                   *)

MaxChatReqs == 2
ChatReqs == 1..MaxChatReqs

Backends == {"perplexity", "gemini"}

\* message values of the multipart body used as inputs
MsgWeather == <<"W","e","a","t","h","e","r","?">>
MsgTrain   == <<"t","r","a","i","n","s">>
MsgHello   == <<"H","e","l","l","o">>
MsgBlank   == <<" ","\n">>
MsgEmpty   == <<>>

\* req.body.message: absent, an array (a repeated field) or a string
MessageFields ==
  {[kind |-> "absent", text |-> <<>>], [kind |-> "array", text |-> <<>>]}
    \cup {[kind |-> "string", text |-> t] :
            t \in {MsgWeather, MsgTrain, MsgHello, MsgBlank, MsgEmpty}}

\* req.body.conversationHistory / userData: absent (or the empty string), text
\* that JSON.parse rejects, JSON text of an array, JSON text of another value
HistoryFields == {"absent", "invalid", "array", "nonarray"}
UserDataFields == {"absent", "invalid", "object"}

\* a turn of the parsed history: an object whose parts[0].text is a non-empty
\* string, one whose text is the empty string, or the element null
TurnKinds == {"text", "blank", "null"}

\* the longest history used as input
MaxTurns == 7

ChatBodies ==
  [message : MessageFields, conversationHistory : HistoryFields,
   userData : UserDataFields, file : BOOLEAN, turns : {<<>>}]

\* what an upstream AI endpoint does with one request: a transport or HTTP
\* error, no answer within axios' timeout, a body without the expected
\* fields, or a body carrying a text (possibly the empty string)
ChatTexts == {"", "ok"}
ChatOutcomes ==
  {[kind |-> "error", text |-> ""], [kind |-> "timeout", text |-> ""],
   [kind |-> "malformed", text |-> ""]}
    \cup {[kind |-> "text", text |-> t] : t \in ChatTexts}

NoCall == <<>>

\* the body of an upstream request: whether it carries the system prompt,
\* the turns rendered in the prompt's conversation context, the turns in the
\* message list (turns are named by their position in the history), and
\* whether the uploaded file is attached
NoRequest == [system |-> FALSE, context |-> <<>>, turns |-> <<>>, file |-> FALSE]

IdleChat ==
  [pc |-> "idle", message |-> <<>>, file |-> FALSE,
   turns |-> <<>>, profile |-> "object",
   aiSource |-> "none", actualSource |-> "none",
   calls |-> <<>>, status |-> 0, response |-> "", respSource |-> "none",
   respMessage |-> "none", producer |-> "none"]

\* the message fails the route's check of required fields
MessageInvalid(m) ==
  \/ m.kind = "absent"
  \/ m.kind # "string"
  \/ m.text = <<>>
  \/ TrimIsEmpty(m.text)

\* JSON.parse of conversationHistory or of userData throws
FieldsUnparseable(b) ==
  b.conversationHistory = "invalid" \/ b.userData = "invalid"

\* HistoryIsArray that accepts whatever JSON.parse returned
HistoryIsArrayAnyJson(b) == b.conversationHistory \in HistoryFields \cup {"empty"}

\* Array.isArray(parsedHistory); an absent or empty field gives []
HistoryIsArray(b) == b.conversationHistory \in {"absent", "empty", "array"}

\* parsedHistory and parsedUserData: an absent or empty field gives [] and {}
parsedHistory(b) == IF b.conversationHistory = "array" THEN b.turns ELSE <<>>
parsedUserData(b) == IF b.userData = "null" THEN "null" ELSE "object"

\* conversationHistory.slice(-n): the positions of the last n turns
slice(h, n) == {i \in 1..Len(h) : i > Len(h) - n}

\* the positions of the turns of h, in order
Positions(h) == [i \in 1..Len(h) |-> i]

\* cleanedHistory: the last 5 turns that have a text
cleanedHistory(h) ==
  SelectSeq(Positions(h), LAMBDA i : i \in slice(h, 5) /\ h[i] = "text")

\* getSystemPrompt reads msg.role of every one of the last 6 turns and
\* userData.name: a null turn or null userData makes it throw a TypeError
SystemPromptThrows(h, u) == u = "null" \/ \E i \in slice(h, 6) : h[i] = "null"

\* contextHistory of getSystemPrompt: the last 6 turns
contextHistory(h) == SelectSeq(Positions(h), LAMBDA i : i \in slice(h, 6))

\* the client throws while it builds the request
BuildThrows(backend, h, u) ==
  IF backend = "perplexity" THEN SystemPromptThrows(h, u)
  ELSE cleanedHistory(h) = <<>> /\ SystemPromptThrows(h, u)

\* the messages of callPerplexityAPI, the contents of callGeminiAPI
BuildRequest(backend, h, file) ==
  IF backend = "perplexity"
  THEN [system |-> TRUE, context |-> contextHistory(h),
        turns |-> cleanedHistory(h), file |-> FALSE]
  ELSE IF cleanedHistory(h) = <<>>
  THEN [system |-> TRUE, context |-> contextHistory(h), turns |-> <<>>, file |-> file]
  ELSE [system |-> FALSE, context |-> <<>>, turns |-> cleanedHistory(h), file |-> file]

\* the configured key of a backend (PERPLEXITY_API_KEY, GOOGLE_API_KEY)
KeyConfigured(backend) ==
  IF backend = "perplexity" THEN env.perplexityKey ELSE env.googleKey

\* callPerplexityAPI / callGeminiAPI up to their await: without the key, or
\* when building the request throws, no request is sent
CallStart(c, backend) ==
  LET sent == KeyConfigured(backend) /\ ~BuildThrows(backend, c.turns, c.profile)
  IN [c EXCEPT !.calls = Append(@,
       [backend |-> backend,
        sent    |-> sent,
        request |-> IF sent THEN BuildRequest(backend, c.turns, c.file) ELSE NoRequest,
        result  |-> IF sent THEN "pending" ELSE "failed"])]

LastCall(c) == c.calls[Len(c.calls)]

\* the value a backend client returns for an upstream outcome, or its throw
BackendReturns(backend, o) ==
  CASE o.kind # "text"        -> [ok |-> FALSE, text |-> ""]
    [] backend = "perplexity" -> [ok |-> TRUE, text |-> o.text]
    [] OTHER                  -> [ok |-> o.text # "", text |-> o.text]

\* catch (apiError): res.status(500) with aiSource: actualSource
\* and message: apiError.message
ApiFailure(c) ==
  [c EXCEPT !.pc = "done", !.status = 500, !.respSource = c.actualSource,
            !.respMessage = "detail"]

\* CallFailed with one more attempt on the same backend before giving up
CallFailedRetrying(c) ==
  IF Len(c.calls) < 3
  THEN CallStart([c EXCEPT !.pc = "fallback"], LastCall(c).backend)
  ELSE ApiFailure(c)

\* a backend call of the request threw
CallFailed(c) ==
  IF c.pc = "primary" /\ c.aiSource = "perplexity"
  THEN \* catch (perplexityError): fall back to Gemini
       LET f == CallStart([c EXCEPT !.pc = "fallback"], "gemini")
       IN IF LastCall(f).result = "failed" THEN ApiFailure(f) ELSE f
  ELSE ApiFailure(c)

\* CallReturned without the assignment actualSource = 'gemini'
CallReturnedUntagged(c, text) ==
  [c EXCEPT !.pc = "done", !.status = 200, !.response = text,
            !.respSource = c.actualSource,
            !.producer = LastCall(c).backend]

\* a backend call of the request returned text
CallReturned(c, text) ==
  LET a == IF c.pc = "fallback" THEN "gemini" ELSE c.actualSource
  IN [c EXCEPT !.pc = "done", !.status = 200, !.response = text,
               !.actualSource = a, !.respSource = a,
               !.producer = LastCall(c).backend]

\* the route from its start to the first await
SendStart(b) ==
  IF MessageInvalid(b.message) \/ FieldsUnparseable(b) \/ ~HistoryIsArray(b)
  THEN [IdleChat EXCEPT !.pc = "done", !.status = 400]
  ELSE LET src == determineAiSource(b.message.text)
           c == CallStart([IdleChat EXCEPT !.pc = "primary",
                                           !.message = b.message.text,
                                           !.file = b.file,
                                           !.turns = parsedHistory(b),
                                           !.profile = parsedUserData(b),
                                           !.aiSource = src,
                                           !.actualSource = src], src)
       IN IF LastCall(c).result = "failed" THEN CallFailed(c) ELSE c

\* a request arrives at POST /send; requests are numbered as they arrive
ChatSend(r, b) ==
  /\ chat[r].pc = "idle"
  /\ \A q \in ChatReqs : q < r => chat[q].pc # "idle"
  /\ chat' = [chat EXCEPT ![r] = SendStart(b)]
  /\ UNCHANGED <<env, now, cache, apiCallLimiter, agg, served, lim, probe>>

\* the upstream endpoint of the pending call answers, or axios times out
ChatUpstream(r, o) ==
  /\ chat[r].pc \in {"primary", "fallback"}
  /\ LastCall(chat[r]).result = "pending"
  /\ LET c == chat[r]
         ret == BackendReturns(LastCall(c).backend, o)
         c1 == [c EXCEPT !.calls[Len(c.calls)].result =
                            IF ret.ok THEN "ok" ELSE "failed"]
     IN chat' = [chat EXCEPT ![r] =
                   IF ret.ok THEN CallReturned(c1, ret.text) ELSE CallFailed(c1)]
  /\ UNCHANGED <<env, now, cache, apiCallLimiter, agg, served, lim, probe>>

\* no probe answered yet
NoProbe == [route |-> "none", status |-> 0, stats |-> FALSE, keys |-> 0]

Envs == [perplexityKey : BOOLEAN, googleKey : BOOLEAN, production : BOOLEAN]

InitChat ==
  /\ env \in Envs
  /\ chat = [r \in ChatReqs |-> IdleChat]
  /\ now = 0
  /\ cache = << >>
  /\ apiCallLimiter = << >>
  /\ agg = << >>
  /\ served = 0
  /\ lim = << >>
  /\ probe = NoProbe

NextChat ==
  \/ \E r \in ChatReqs, b \in ChatBodies : ChatSend(r, b)
  \/ \E r \in ChatReqs, o \in ChatOutcomes : ChatUpstream(r, o)

\* axios' 30 s timeout makes every pending call end
SpecChat == InitChat /\ [][NextChat]_vars /\ WF_vars(\E r \in ChatReqs, o \in ChatOutcomes : ChatUpstream(r, o))

PromptOutcomes == {o \in ChatOutcomes : o.kind = "error" \/ o.text = "ok"}

\* SpecClassifier: chat requests whose messages are queries that hold a
\* keyword, hold one inside another word, match a pattern only, miss a
\* pattern because of a line break, or hold nothing, in two spellings each.
QWeatherLower == <<"w","e","a","t","h","e","r","?">>
QTrainUpper == <<"T","R","A","I","N","S">>
QHelloMixed == <<"h","E","L","L","O">>
QOpenNow == <<"I","s"," ","i","t"," ","o","p","e","n",","," ","n","o","w">>
QOpenNowLower == <<"i","s"," ","i","t"," ","o","p","e","n",","," ","n","o","w">>
QOpenBreakNow == <<"i","s"," ","i","t"," ","o","p","e","n",",","\n","n","o","w">>

Queries ==
  {MsgWeather, QWeatherLower, MsgTrain, QTrainUpper, MsgHello, QHelloMixed,
   QOpenNow, QOpenNowLower, QOpenBreakNow}

ClassifierBodies ==
  [message : {[kind |-> "string", text |-> t] : t \in Queries},
   conversationHistory : {"absent"}, userData : {"absent"}, file : {FALSE},
   turns : {<<>>}]

NextClassifier ==
  \/ \E r \in ChatReqs, b \in ClassifierBodies :
       /\ \A q \in ChatReqs : chat[q].pc \in {"idle", "done"}
       /\ ChatSend(r, b)
  \/ \E r \in ChatReqs, o \in PromptOutcomes : ChatUpstream(r, o)

SpecClassifier == InitChat /\ [][NextClassifier]_vars

\* SpecPrompt: one chat request with a conversation history.  The turns
\* after the oldest one all have a text or are all blank; the oldest turn
\* may also be null.  userData is an object, null or the empty string.
Histories ==
  {h \in UNION {[1..n -> TurnKinds] : n \in 0..MaxTurns} :
     \A i \in 2..Len(h) : h[i] = h[Len(h)] /\ h[i] # "null"}

PromptMessages == {[kind |-> "string", text |-> t] : t \in {MsgWeather, MsgHello}}

PromptBodies ==
  [message : PromptMessages, conversationHistory : {"array"},
   userData : {"object", "null", "empty"}, file : BOOLEAN, turns : Histories]
    \cup [message : PromptMessages, conversationHistory : {"absent", "empty"},
          userData : {"object"}, file : {FALSE}, turns : {<<>>}]

NextPrompt ==
  \/ \E b \in PromptBodies : ChatSend(1, b)
  \/ \E o \in PromptOutcomes : ChatUpstream(1, o)

SpecPrompt == InitChat /\ [][NextPrompt]_vars

-----------------------------------------------------------------------------
(* JavaScript values of the aggregation request body                        *)

Undefined == [type |-> "undefined", text |-> "undefined"]
Num(t) == [type |-> "number", text |-> t]
Str(t) == [type |-> "string", text |-> t]

\* ToBoolean: what !v tests
Truthy(v) ==
  CASE v.type = "undefined" -> FALSE
    [] v.type = "number"    -> v.text \notin {"0", "NaN"}
    [] v.type = "string"    -> v.text # ""
    [] OTHER                -> TRUE

\* `${v}` in a template literal
Template(v) == v.text

\* userPreferences: undefined, or an object with an allergies array
NoPrefs == [type |-> "undefined", allergies |-> <<>>]
Prefs(a) == [type |-> "object", allergies |-> a]

\* JSON.stringify(userPreferences), as the sequence of its tokens
JSONstringify(p) ==
  IF p.type = "undefined" THEN <<"undefined">>
  ELSE <<"{", "allergies", "[">> \o p.allergies \o <<"]", "}">>

-----------------------------------------------------------------------------
(* Upstream texts and their parsing in the provider fetchers                *)
(* A text is a sequence of tokens: "{" and "}", "k" for a member name with  *)
(* its colon, "n" for the literal null, "1" for a number, "x" for prose.    *)

TextTokens == {"{", "}", "k", "n", "1", "x"}

\* JSON.parse accepts the token sequence
RECURSIVE IsJson(_)
IsJson(s) ==
  CASE Len(s) = 0 -> FALSE
    [] Len(s) = 1 -> s[1] \in {"n", "1"}
    [] OTHER ->
         /\ s[1] = "{" /\ s[Len(s)] = "}"
         /\ LET inner == SubSeq(s, 2, Len(s) - 1)
            IN \/ inner = <<>>
               \/ Len(inner) >= 2 /\ inner[1] = "k" /\ IsJson(Tail(inner))

\* response.match(/\{[\s\S]*\}/): from the first "{" to the last "}", or no match
HasMatch(s) ==
  \E i, j \in 1..Len(s) : i < j /\ s[i] = "{" /\ s[j] = "}"

jsonMatch(s) ==
  LET i == CHOOSE a \in 1..Len(s) : s[a] = "{" /\ \A b \in 1..(a - 1) : s[b] # "{"
      j == CHOOSE a \in 1..Len(s) : s[a] = "}" /\ \A b \in (a + 1)..Len(s) : s[b] # "}"
  IN SubSeq(s, i, j)

\* the argument of JSON.parse: jsonMatch ? jsonMatch[0] : response
ParseInput(s) == IF HasMatch(s) THEN jsonMatch(s) ELSE s

\* payload values: a domain's default object, or a parsed JSON value given by
\* its text; JsNull is the value null
DefaultPayload(d) == [kind |-> "default", of |-> d, text |-> <<>>]
Json(s) == [kind |-> "json", of |-> "", text |-> s]
JsNull == Json(<<"n">>)

\* the value is a JavaScript object (not null, not a number)
IsObject(v) == v.kind = "default" \/ (v.kind = "json" /\ v.text[1] = "{")

\* ToBoolean of a payload value: what `if (cached)` tests
TruthyValue(v) == v.kind = "default" \/ (v.kind = "json" /\ v.text # <<"n">>)

\* the inner try/catch of a fetcher: the parsed value, or the default payload
\* when match or JSON.parse throws
ParseOrDefault(d, s) ==
  IF IsJson(ParseInput(s)) THEN Json(ParseInput(s)) ELSE DefaultPayload(d)

-----------------------------------------------------------------------------
(* TTL cache (node-cache) and rate limiter                                   *)

Domains == {"weather", "airQuality", "traffic", "health", "crime", "markets"}

\* third argument of cache.set in each fetcher, in seconds
ProviderTTL(d) ==
  CASE d = "weather"    -> 600
    [] d = "airQuality" -> 600
    [] d = "traffic"    -> 300
    [] d = "health"     -> 1800
    [] d = "crime"      -> 1800
    [] d = "markets"    -> 3600

COMPOSITE_TTL == 300

MS_PER_DAY == 86400000

\* new Date().toDateString(): the calendar day of the clock
toDateString(t) == t \div MS_PER_DAY

\* ProviderKey with the coordinates in the market key too
ProviderKeyWithPlace(d, loc, t) ==
  IF d = "markets"
  THEN <<"markets", Template(loc.lat), Template(loc.lng), toDateString(t)>>
  ELSE <<d, Template(loc.lat), Template(loc.lng)>>

\* the cache key of a provider fetch
ProviderKey(d, loc, t) ==
  IF d = "markets" THEN <<"markets", toDateString(t)>>
  ELSE <<d, Template(loc.lat), Template(loc.lng)>>

\* the cache key of the combined result
CompositeKey(loc, prefs) ==
  <<"environmental_data", Template(loc.lat), Template(loc.lng), JSONstringify(prefs)>>

\* CacheHas that never lets an entry expire
CacheHasIgnoringExpiry(c, key, t) == key \in DOMAIN c

\* cache.get(key) at time t hits: the key is stored and not past its expiry
CacheHas(c, key, t) == key \in DOMAIN c /\ c[key].t >= t

\* CacheSet that keeps the value of an entry it finds
CacheSetKeepingFirst(c, key, v, ttl, t, by) ==
  [k \in (DOMAIN c) \cup {key} |->
     IF k = key
     THEN [v |-> IF key \in DOMAIN c THEN c[key].v ELSE v,
           t |-> t + ttl * 1000, by |-> by]
     ELSE c[k]]

\* cache.set(key, v, ttl) at time t; by names the request that writes (kept
\* for the claims, the code stores no such field)
CacheSet(c, key, v, ttl, t, by) ==
  [k \in (DOMAIN c) \cup {key} |->
     IF k = key THEN [v |-> v, t |-> t + ttl * 1000, by |-> by] ELSE c[k]]

RATE_LIMIT_WINDOW == 60000
MAX_API_CALLS_PER_MINUTE == 20

\* a filter that keeps a call for one millisecond longer
recentCallsInclusive(userCalls, t) ==
  SelectSeq(userCalls, LAMBDA timestamp : t - timestamp <= RATE_LIMIT_WINDOW)

\* the filter of checkRateLimit: the calls within the window
recentCalls(userCalls, t) ==
  SelectSeq(userCalls, LAMBDA timestamp : t - timestamp < RATE_LIMIT_WINDOW)

\* checkRateLimit(identifier) at time t: its return value
checkRateLimit(limiter, identifier, t) ==
  Len(recentCalls(limiter[identifier], t)) < MAX_API_CALLS_PER_MINUTE

\* LimiterAfter that records the timestamp of a denied call too
LimiterAfterRecordingDenied(limiter, identifier, t) ==
  [limiter EXCEPT ![identifier] =
     IF Len(recentCalls(@, t)) < MAX_API_CALLS_PER_MINUTE
     THEN Append(recentCalls(@, t), t)
     ELSE Append(Tail(recentCalls(@, t)), t)]

\* checkRateLimit(identifier) at time t: the map afterwards
LimiterAfter(limiter, identifier, t) ==
  IF checkRateLimit(limiter, identifier, t)
  THEN [limiter EXCEPT ![identifier] = Append(recentCalls(@, t), t)]
  ELSE limiter

\* the caller identities: req.ip
Ips == {"ip1", "ip2"}

\* what the claims need of the past calls of checkRateLimit: the instants
\* of the admitted calls of each identity, whether it has been denied, the
\* number of its calls, and the last call: who, when, the answer, and the
\* list the Map held for the caller before it (length and first entry)
NoCheck ==
  [ip |-> "none", at |-> 0, admitted |-> FALSE, prior |-> 0, held |-> 0,
   oldest |-> 0, wasDenied |-> FALSE]

NoHistory ==
  [log |-> [ip \in Ips |-> << >>], denied |-> [ip \in Ips |-> FALSE],
   calls |-> [ip \in Ips |-> 0], last |-> NoCheck]

\* the admitted calls of an identity within the window that ends at t
AdmitsWithin(log, t) ==
  {i \in DOMAIN log : log[i] <= t /\ t - log[i] < RATE_LIMIT_WINDOW}

\* checkRateLimit(ip) is called at Date.now() = now
LimiterCheck(ip) ==
  LET userCalls == apiCallLimiter[ip]
      admitted == checkRateLimit(apiCallLimiter, ip, now)
  IN /\ apiCallLimiter' = LimiterAfter(apiCallLimiter, ip, now)
     /\ lim' = [log |-> IF admitted
                        THEN [lim.log EXCEPT ![ip] = Append(@, now)]
                        ELSE lim.log,
                denied |-> [lim.denied EXCEPT ![ip] = @ \/ ~admitted],
                calls |-> [lim.calls EXCEPT ![ip] = @ + 1],
                last |-> [ip |-> ip, at |-> now, admitted |-> admitted,
                          prior |-> Cardinality(AdmitsWithin(lim.log[ip], now)),
                          held |-> Len(userCalls),
                          oldest |-> IF userCalls = << >> THEN now ELSE Head(userCalls),
                          wasDenied |-> lim.denied[ip]]]
     /\ UNCHANGED <<now, cache, agg, env, chat, served, probe>>

-----------------------------------------------------------------------------
(* Aggregation route: POST /environmental-data                              *)

\* the number of aggregation requests of a run
MaxServed == 3

\* the request records the model keeps at a time: a new request takes a
\* free record or replaces an answered one
AggReqs == {1, 2}


AXIOS_TIMEOUT == 30000

NoLocation ==
  [given |-> FALSE, lat |-> Undefined, lng |-> Undefined, address |-> Undefined]
Location(lat, lng, address) ==
  [given |-> TRUE, lat |-> lat, lng |-> lng, address |-> address]

\* what the upstream text-generation endpoint does with one provider request:
\* a transport or HTTP error, no answer within axios' timeout, a body without
\* choices[0].message, a body whose content is not a string, or a text
ProviderOutcomes(texts) ==
  {[kind |-> k, text |-> <<>>] : k \in {"error", "timeout", "malformed", "nontext"}}
    \cup {[kind |-> "text", text |-> s] : s \in texts}

Snapshot(f, t, address) ==
  [weather |-> f["weather"], airQuality |-> f["airQuality"],
   traffic |-> f["traffic"], health |-> f["health"], crime |-> f["crime"],
   markets |-> f["markets"], lastUpdated |-> t, location |-> address]

NoSnapshot == Snapshot([d \in Domains |-> JsNull], -1, Undefined)

SnapshotField(s, d) ==
  CASE d = "weather"    -> s.weather
    [] d = "airQuality" -> s.airQuality
    [] d = "traffic"    -> s.traffic
    [] d = "health"     -> s.health
    [] d = "crime"      -> s.crime
    [] d = "markets"    -> s.markets

NoOutcome == [kind |-> "none", text |-> <<>>]
FromCache == [kind |-> "cache", text |-> <<>>]

\* a fetcher's promise: its state, its value, its cache key, and what the
\* upstream did (got, kept for the claims)
NoFetch == [st |-> "none", v |-> JsNull, key |-> <<>>, got |-> NoOutcome]

IdleAgg ==
  [pc |-> "idle", ip |-> "", loc |-> NoLocation, prefs |-> NoPrefs,
   seq |-> 0, at |-> 0, doneAt |-> 0, ckey |-> <<>>, sawBy |-> 0,
   fetch |-> [d \in Domains |-> NoFetch],
   called |-> {}, hit |-> FALSE, status |-> 0, body |-> NoSnapshot]

\* the route's check of required fields fails
LocationInvalid(loc) ==
  \/ ~loc.given
  \/ ~Truthy(loc.lat)
  \/ ~Truthy(loc.lng)
  \/ ~Truthy(loc.address)

\* FetchStart that joins a request in flight for the same key instead of
\* calling the upstream itself
FetchStartJoining(c, d, loc, t) ==
  LET key == ProviderKey(d, loc, t)
  IN IF CacheHas(c, key, t) /\ TruthyValue(c[key].v)
     THEN [st |-> "fulfilled", v |-> c[key].v, key |-> key, got |-> FromCache]
     ELSE IF \E q \in AggReqs : /\ agg[q].pc = "fetching"
                                /\ agg[q].fetch[d].st = "pending"
                                /\ agg[q].fetch[d].key = key
     THEN [st |-> "fulfilled", v |-> DefaultPayload(d), key |-> key, got |-> FromCache]
     ELSE [st |-> "pending", v |-> JsNull, key |-> key, got |-> NoOutcome]

\* a fetcher up to its await: the cached value if cache.get gives a truthy
\* one, otherwise a request to the upstream endpoint
FetchStart(c, d, loc, t) ==
  LET key == ProviderKey(d, loc, t)
  IN IF CacheHas(c, key, t) /\ TruthyValue(c[key].v)
     THEN [st |-> "fulfilled", v |-> c[key].v, key |-> key, got |-> FromCache]
     ELSE [st |-> "pending", v |-> JsNull, key |-> key, got |-> NoOutcome]

\* FetchSettle that lets an upstream error escape the fetcher
FetchSettleRethrowing(d, o) ==
  CASE o.kind \in {"error", "timeout", "malformed"} ->
         [st |-> "rejected", v |-> JsNull, store |-> FALSE]
    [] o.kind = "nontext" ->
         [st |-> "fulfilled", v |-> DefaultPayload(d), store |-> TRUE]
    [] OTHER ->
         [st |-> "fulfilled", v |-> ParseOrDefault(d, o.text), store |-> TRUE]

\* a fetcher after its await: how its promise settles, with which value, and
\* whether cache.set is reached.  queryPerplexity throws on an error, a
\* timeout and a malformed body, which the outer catch turns into the default
\* payload; a failing match or JSON.parse is caught by the inner catch.
FetchSettle(d, o) ==
  CASE o.kind \in {"error", "timeout", "malformed"} ->
         [st |-> "fulfilled", v |-> DefaultPayload(d), store |-> FALSE]
    [] o.kind = "nontext" ->
         [st |-> "fulfilled", v |-> DefaultPayload(d), store |-> TRUE]
    [] OTHER ->
         [st |-> "fulfilled", v |-> ParseOrDefault(d, o.text), store |-> TRUE]

\* environmentalData: each settled result's value, or null for a rejection
Assemble(a, t) ==
  Snapshot([d \in Domains |->
              IF a.fetch[d].st = "fulfilled" THEN a.fetch[d].v ELSE JsNull],
           t, a.loc.address)

\* a route that resumes as soon as one fetch has settled
AnySettled(a) == \E d \in Domains : a.fetch[d].st \in {"fulfilled", "rejected"}

\* Promise.allSettled resolves: no fetch is pending
AllSettled(a) == \A d \in Domains : a.fetch[d].st \in {"fulfilled", "rejected"}

\* StoreSnapshot that skips a snapshot holding a default payload
StoreSnapshotIfComplete(c, a, t) ==
  IF \E d \in Domains : a.fetch[d].v = DefaultPayload(d)
  THEN c
  ELSE CacheSet(c, a.ckey, Assemble(a, t), COMPOSITE_TTL, t, a.seq)

\* StoreSnapshot with the TTL given in minutes
StoreSnapshotTtlInMinutes(c, a, t) ==
  CacheSet(c, a.ckey, Assemble(a, t), 5, t, a.seq)

\* the route caches the combined result: cache.set(cacheKey, environmentalData, 300)
StoreSnapshot(c, a, t) ==
  CacheSet(c, a.ckey, Assemble(a, t), COMPOSITE_TTL, t, a.seq)

\* the route after Promise.allSettled: the request record once answered
Answered(a, t) ==
  [a EXCEPT !.pc = "done", !.status = 200, !.doneAt = t, !.body = Assemble(a, t)]

\* AggHandle with admission before validation
AggHandleAdmittingFirst(r, ip, loc, prefs) ==
  /\ agg[r].pc \in {"idle", "done"}
  /\ served' = served + 1
  /\ LET a0 == [IdleAgg EXCEPT !.ip = ip, !.loc = loc, !.prefs = prefs,
                               !.at = now, !.doneAt = now, !.seq = served + 1]
         ckey == CompositeKey(loc, prefs)
         a1 == [a0 EXCEPT !.ckey = ckey,
                          !.sawBy = IF ckey \in DOMAIN cache THEN cache[ckey].by ELSE 0,
                          !.fetch = [d \in Domains |-> FetchStart(cache, d, loc, now)],
                          !.called = {d \in Domains :
                                        FetchStart(cache, d, loc, now).st = "pending"},
                          !.pc = "fetching"]
     IN IF ~checkRateLimit(apiCallLimiter, ip, now)
        THEN /\ agg' = [agg EXCEPT ![r] = [a0 EXCEPT !.pc = "done", !.status = 429]]
             /\ UNCHANGED <<cache, apiCallLimiter>>
        ELSE /\ apiCallLimiter' = LimiterAfter(apiCallLimiter, ip, now)
             /\ IF LocationInvalid(loc)
                THEN /\ agg' = [agg EXCEPT ![r] = [a0 EXCEPT !.pc = "done", !.status = 400]]
                     /\ UNCHANGED cache
                ELSE IF CacheHas(cache, ckey, now)
                THEN /\ agg' = [agg EXCEPT ![r] =
                                  [a0 EXCEPT !.pc = "done", !.status = 200,
                                             !.ckey = ckey, !.hit = TRUE,
                                             !.sawBy = cache[ckey].by,
                                             !.body = cache[ckey].v]]
                     /\ UNCHANGED cache
                ELSE IF AllSettled(a1)
                THEN /\ agg' = [agg EXCEPT ![r] = Answered(a1, now)]
                     /\ cache' = StoreSnapshot(cache, a1, now)
                ELSE /\ agg' = [agg EXCEPT ![r] = a1]
                     /\ UNCHANGED cache
  /\ UNCHANGED <<now, env, chat, lim, probe>>

\* AggHandle with the composite lookup before admission
AggHandleLookingUpFirst(r, ip, loc, prefs) ==
  /\ agg[r].pc \in {"idle", "done"}
  /\ served' = served + 1
  /\ LET a0 == [IdleAgg EXCEPT !.ip = ip, !.loc = loc, !.prefs = prefs,
                               !.at = now, !.doneAt = now, !.seq = served + 1]
         ckey == CompositeKey(loc, prefs)
         a1 == [a0 EXCEPT !.ckey = ckey,
                          !.sawBy = IF ckey \in DOMAIN cache THEN cache[ckey].by ELSE 0,
                          !.fetch = [d \in Domains |-> FetchStart(cache, d, loc, now)],
                          !.called = {d \in Domains :
                                        FetchStart(cache, d, loc, now).st = "pending"},
                          !.pc = "fetching"]
     IN IF LocationInvalid(loc)
        THEN /\ agg' = [agg EXCEPT ![r] = [a0 EXCEPT !.pc = "done", !.status = 400]]
             /\ UNCHANGED <<cache, apiCallLimiter>>
        ELSE IF CacheHas(cache, ckey, now)
        THEN /\ agg' = [agg EXCEPT ![r] =
                          [a0 EXCEPT !.pc = "done", !.status = 200,
                                     !.ckey = ckey, !.hit = TRUE,
                                     !.sawBy = cache[ckey].by,
                                     !.body = cache[ckey].v]]
             /\ UNCHANGED <<cache, apiCallLimiter>>
        ELSE IF ~checkRateLimit(apiCallLimiter, ip, now)
        THEN /\ agg' = [agg EXCEPT ![r] = [a0 EXCEPT !.pc = "done", !.status = 429]]
             /\ UNCHANGED <<cache, apiCallLimiter>>
        ELSE /\ apiCallLimiter' = LimiterAfter(apiCallLimiter, ip, now)
             /\ IF AllSettled(a1)
                THEN /\ agg' = [agg EXCEPT ![r] = Answered(a1, now)]
                     /\ cache' = StoreSnapshot(cache, a1, now)
                ELSE /\ agg' = [agg EXCEPT ![r] = a1]
                     /\ UNCHANGED cache
  /\ UNCHANGED <<now, env, chat, lim, probe>>

\* the route handles a request up to its await of Promise.allSettled, or to
\* its response when it does not get there
AggHandle(r, ip, loc, prefs) ==
  /\ agg[r].pc \in {"idle", "done"}
  /\ served' = served + 1
  /\ LET a0 == [IdleAgg EXCEPT !.ip = ip, !.loc = loc, !.prefs = prefs,
                               !.at = now, !.doneAt = now, !.seq = served + 1]
         ckey == CompositeKey(loc, prefs)
         a1 == [a0 EXCEPT !.ckey = ckey,
                          !.sawBy = IF ckey \in DOMAIN cache THEN cache[ckey].by ELSE 0,
                          !.fetch = [d \in Domains |-> FetchStart(cache, d, loc, now)],
                          !.called = {d \in Domains :
                                        FetchStart(cache, d, loc, now).st = "pending"},
                          !.pc = "fetching"]
     IN IF LocationInvalid(loc)
        THEN /\ agg' = [agg EXCEPT ![r] = [a0 EXCEPT !.pc = "done", !.status = 400]]
             /\ UNCHANGED <<cache, apiCallLimiter>>
        ELSE IF ~checkRateLimit(apiCallLimiter, ip, now)
        THEN /\ agg' = [agg EXCEPT ![r] = [a0 EXCEPT !.pc = "done", !.status = 429]]
             /\ UNCHANGED <<cache, apiCallLimiter>>
        ELSE /\ apiCallLimiter' = LimiterAfter(apiCallLimiter, ip, now)
             /\ IF CacheHas(cache, ckey, now)
                THEN /\ agg' = [agg EXCEPT ![r] =
                                  [a0 EXCEPT !.pc = "done", !.status = 200,
                                             !.ckey = ckey, !.hit = TRUE,
                                             !.sawBy = cache[ckey].by,
                                             !.body = cache[ckey].v]]
                     /\ UNCHANGED cache
                ELSE IF AllSettled(a1)
                THEN /\ agg' = [agg EXCEPT ![r] = Answered(a1, now)]
                     /\ cache' = StoreSnapshot(cache, a1, now)
                ELSE /\ agg' = [agg EXCEPT ![r] = a1]
                     /\ UNCHANGED cache
  /\ UNCHANGED <<now, env, chat, lim, probe>>

\* a request arrives at POST /environmental-data
AggArrive(r, ip, loc, prefs) == served < MaxServed /\ AggHandle(r, ip, loc, prefs)

\* the upstream endpoint answers provider d's request of r, or axios times
\* out; the fetcher resumes and, if it was the last one, so does the route
AggUpstream(r, d, o) ==
  /\ agg[r].pc = "fetching"
  /\ agg[r].fetch[d].st = "pending"
  /\ o.kind = "timeout" => now = agg[r].at + AXIOS_TIMEOUT
  /\ LET s == FetchSettle(d, o)
         key == agg[r].fetch[d].key
         c1 == IF s.store
               THEN CacheSet(cache, key, s.v, ProviderTTL(d), now, agg[r].seq)
               ELSE cache
         a1 == [agg[r] EXCEPT !.fetch[d] =
                                [st |-> s.st, v |-> s.v, key |-> key, got |-> o]]
     IN IF AllSettled(a1)
        THEN /\ agg' = [agg EXCEPT ![r] = Answered(a1, now)]
             /\ cache' = StoreSnapshot(c1, a1, now)
        ELSE /\ agg' = [agg EXCEPT ![r] = a1]
             /\ cache' = c1
  /\ UNCHANGED <<now, apiCallLimiter, env, chat, served, lim, probe>>

\* DELETE /cache/clear outside production: cache.flushAll()
CacheClear ==
  /\ ~env.production
  /\ DOMAIN cache # {}
  /\ cache' = << >>
  /\ UNCHANGED <<now, apiCallLimiter, agg, env, chat, served, lim, probe>>

\* GET /health of the alerts router: the cache statistics and the number of
\* identities the limiter knows, whatever NODE_ENV is (of getStats() the
\* model keeps the number of keys)
AlertsHealth ==
  /\ probe' = [route |-> "health", status |-> 200, stats |-> TRUE,
                keys |-> Cardinality(DOMAIN cache)]
  /\ UNCHANGED <<now, cache, apiCallLimiter, agg, env, chat, served, lim>>

\* GET /cache/stats: the statistics outside production, 404 in production
CacheStats ==
  /\ probe' = IF ~env.production
              THEN [route |-> "cache/stats", status |-> 200, stats |-> TRUE,
                    keys |-> Cardinality(DOMAIN cache)]
              ELSE [route |-> "cache/stats", status |-> 404, stats |-> FALSE,
                    keys |-> 0]
  /\ UNCHANGED <<now, cache, apiCallLimiter, agg, env, chat, served, lim>>

\* the clock moves to the next instant of a schedule; no upstream request
\* stays unanswered past axios' timeout
Tick(instants) ==
  /\ \E i \in 1..(Len(instants) - 1) : now = instants[i] /\ now' = instants[i + 1]
  /\ \A r \in AggReqs : agg[r].pc = "fetching" => now' <= agg[r].at + AXIOS_TIMEOUT
  /\ UNCHANGED <<cache, apiCallLimiter, agg, env, chat, served, lim, probe>>

-----------------------------------------------------------------------------
(* Specifications of the aggregation route                                   *)

InitAgg ==
  /\ env = [perplexityKey |-> TRUE, googleKey |-> TRUE, production |-> FALSE]
  /\ chat = [r \in ChatReqs |-> IdleChat]
  /\ now = 0
  /\ cache = << >>
  /\ apiCallLimiter = [ip \in Ips |-> << >>]
  /\ agg = [r \in AggReqs |-> IdleAgg]
  /\ served = 0
  /\ lim = NoHistory
  /\ probe = NoProbe

\* request bodies used as inputs
ValidLocations ==
  {Location(Num("1"), Num("3"), Str("A")), Location(Num("1"), Num("3"), Str("B")),
   Location(Num("2"), Num("3"), Str("A"))}
InvalidLocations ==
  {NoLocation,
   Location(Undefined, Num("3"), Str("A")), Location(Num("0"), Num("3"), Str("A")),
   Location(Num("1"), Undefined, Str("A")), Location(Num("1"), Num("0"), Str("A")),
   Location(Num("1"), Num("3"), Undefined), Location(Num("1"), Num("3"), Str(""))}
PrefsValues == {NoPrefs, Prefs(<<"pollen">>)}
AggBodies ==
  [location : ValidLocations, userPreferences : {NoPrefs}]
    \cup {[location |-> Location(Num("1"), Num("3"), Str("A")),
           userPreferences |-> Prefs(<<"pollen">>)],
          [location |-> Location(Num("0"), Num("3"), Str("A")),
           userPreferences |-> NoPrefs],
          [location |-> NoLocation, userPreferences |-> NoPrefs]}

\* the slot a new request takes: a free one, else that of the oldest answer
NextSlot ==
  CHOOSE r \in AggReqs :
    \A q \in AggReqs : agg[r].seq < agg[q].seq \/ (agg[r].seq = agg[q].seq /\ r <= q)

\* upstream texts used as inputs: two objects, null, prose
ObjA == <<"{", "}">>
ObjB == <<"{", "k", "1", "}">>
TxtNull == <<"n">>
TxtProse == <<"x">>

\* fetchers in the order in which the route starts them
DomainOrder == <<"weather", "airQuality", "traffic", "health", "crime", "markets">>
Before(d) ==
  {DomainOrder[i] : i \in 1..((CHOOSE j \in 1..6 : DomainOrder[j] = d) - 1)}

NoneInFlight == \A r \in AggReqs : agg[r].pc # "fetching"

\* Spec: requests are served one at a time and the upstream answers in the
\* order of the fetchers; the weather upstream may fail or return an object,
\* the other upstreams return an object.
SpecInstants == <<0, 300000, 301000>>

SpecOutcomes(d) ==
  IF d = "weather" THEN ProviderOutcomes({ObjA})
  ELSE ProviderOutcomes({ObjA})

Next ==
  \/ \E r \in AggReqs, b \in AggBodies :
       NoneInFlight /\ r = NextSlot /\ AggArrive(r, "ip1", b.location, b.userPreferences)
  \/ \E r \in AggReqs, d \in Domains :
       /\ \A e \in Before(d) : agg[r].fetch[e].st # "pending"
       /\ \E o \in SpecOutcomes(d) :
            /\ o.kind \in {"error", "text"}
            /\ d # "weather" => o.kind = "text"
            /\ AggUpstream(r, d, o)
  \/ NoneInFlight /\ CacheClear
  \/ NoneInFlight /\ Tick(SpecInstants)

Spec == InitAgg /\ [][Next]_vars

\* SpecFanOut: one body, every upstream faulty.  Each upstream may fail,
\* return an object or return prose; the weather and health upstreams may
\* also time out, return a malformed body, a content that is no string, or
\* the text null.  The upstream answers arrive together, at once or when
\* axios times out.
FanOutInstants == <<0, 30000>>

FanOutBody ==
  [location |-> Location(Num("1"), Num("3"), Str("A")), userPreferences |-> NoPrefs]

FanOutOutcomes(d) ==
  IF d \in {"weather", "health"}
  THEN ProviderOutcomes({ObjA, TxtNull, TxtProse})
  ELSE {o \in ProviderOutcomes({ObjA, TxtProse}) : o.kind \in {"error", "text"}}

NoneAnswered ==
  \A r \in AggReqs :
    agg[r].pc = "fetching" =>
      \A d \in Domains : agg[r].fetch[d].got.kind \in {"none", "cache"}

NextFanOut ==
  \/ \E r \in AggReqs :
       /\ NoneInFlight /\ r = NextSlot
       /\ AggArrive(r, "ip1", FanOutBody.location, FanOutBody.userPreferences)
  \/ \E r \in AggReqs, d \in Domains :
       /\ \A e \in Before(d) : agg[r].fetch[e].st # "pending"
       /\ \E o \in FanOutOutcomes(d) : AggUpstream(r, d, o)
  \/ NoneAnswered /\ Tick(FanOutInstants)

SpecFanOut == InitAgg /\ [][NextFanOut]_vars

\* SpecProvider: the provider entries of one location.  Two bodies that
\* differ in userPreferences only, so that they share the provider keys and
\* not the composite key; the clock stops one second before and one second
\* after the expiry of the entries written at 0.  The
\* weather upstream may fail or return an object, null or prose.
ProviderInstants ==
  <<0, 299000, 301000, 599000, 601000, 3599000, 3601000>>

ProviderBodies ==
  [location : {Location(Num("1"), Num("3"), Str("A"))}, userPreferences : PrefsValues]

ProviderSpecOutcomes(d) ==
  IF d = "weather"
  THEN {o \in ProviderOutcomes({ObjA, TxtNull, TxtProse}) : o.kind \in {"error", "text"}}
  ELSE {o \in ProviderOutcomes({ObjA}) : o.kind = "text"}

NextProvider ==
  \/ \E r \in AggReqs, b \in ProviderBodies :
       NoneInFlight /\ r = NextSlot /\ AggArrive(r, "ip1", b.location, b.userPreferences)
  \/ \E r \in AggReqs, d \in Domains :
       /\ \A e \in Before(d) : agg[r].fetch[e].st # "pending"
       /\ \E o \in ProviderSpecOutcomes(d) : AggUpstream(r, d, o)
  \/ NoneInFlight /\ Tick(ProviderInstants)

SpecProvider == InitAgg /\ [][NextProvider]_vars

\* SpecProbe: the introspection routes next to the aggregation route, in
\* production and outside it.
InitProbe ==
  /\ env \in [perplexityKey : {TRUE}, googleKey : {TRUE}, production : BOOLEAN]
  /\ chat = [r \in ChatReqs |-> IdleChat]
  /\ now = 0
  /\ cache = << >>
  /\ apiCallLimiter = [ip \in Ips |-> << >>]
  /\ agg = [r \in AggReqs |-> IdleAgg]
  /\ served = 0
  /\ lim = NoHistory
  /\ probe = NoProbe

NextProbe ==
  \/ \E r \in AggReqs, b \in ProviderBodies :
       NoneInFlight /\ r = NextSlot /\ AggArrive(r, "ip1", b.location, b.userPreferences)
  \/ \E r \in AggReqs, d \in Domains :
       /\ \A e \in Before(d) : agg[r].fetch[e].st # "pending"
       /\ AggUpstream(r, d, [kind |-> "text", text |-> ObjA])
  \/ AlertsHealth
  \/ CacheStats
  \/ CacheClear

SpecProbe == InitProbe /\ [][NextProbe]_vars

\* SpecRace: two requests with one body, both possibly in flight at once.
\* The weather upstream answers at any time, the other five in the order
\* of their fetchers; the weather upstream may stay silent until axios
\* times out, or return one of two objects.
RaceInstants == <<0, 30000>>

RaceOutcomes(d) ==
  IF d = "weather"
  THEN {o \in ProviderOutcomes({ObjA, ObjB}) : o.kind \in {"timeout", "text"}}
  ELSE {o \in ProviderOutcomes({ObjA}) : o.kind = "text"}

RaceUpstream(r, d) ==
  /\ \A e \in Before(d) \ {"weather"} : agg[r].fetch[e].st # "pending"
  /\ \E o \in RaceOutcomes(d) : AggUpstream(r, d, o)

NextRace ==
  \/ \E r \in AggReqs :
       /\ agg[r].pc = "idle"
       /\ \A q \in AggReqs : q < r => agg[q].pc # "idle"
       /\ AggArrive(r, "ip1", FanOutBody.location, FanOutBody.userPreferences)
  \/ \E r \in AggReqs, d \in Domains : RaceUpstream(r, d)
  \/ Tick(RaceInstants)

SpecRace == InitAgg /\ [][NextRace]_vars

\* SpecStuck: requests served one at a time, the six upstreams of a request
\* answering in any order, the weather upstream possibly only when axios
\* times out.  Every upstream request is answered or timed out in the end.
StuckUpstream(r, d) == \E o \in RaceOutcomes(d) : AggUpstream(r, d, o)

NextStuck ==
  \/ \E r \in AggReqs :
       /\ NoneInFlight /\ r = NextSlot
       /\ AggArrive(r, "ip1", FanOutBody.location, FanOutBody.userPreferences)
  \/ \E r \in AggReqs, d \in Domains : StuckUpstream(r, d)
  \/ Tick(RaceInstants)

SpecStuck ==
  /\ InitAgg /\ [][NextStuck]_vars
  /\ \A r \in AggReqs, d \in Domains : WF_vars(StuckUpstream(r, d))

\* SpecBurst: a burst of requests of one identity, served one at a time, all
\* within the limiter's window.  The body is one valid body; a body with
\* latitude 0 arrives before the burst or once the limit is reached.  The
\* upstream fails for the weather fetch, for the other five, for all six or
\* for none.
MaxBurst == 22

BurstInstants == <<0, 59999>>

BurstInvalidBody ==
  [location |-> Location(Num("0"), Num("3"), Str("A")), userPreferences |-> NoPrefs]

BurstOutcomes(a, d) ==
  {o \in ProviderOutcomes({ObjA}) :
     /\ o.kind \in {"error", "text"}
     /\ d \notin {"weather", "airQuality"} => o.kind = a.fetch["airQuality"].got.kind}

NextBurst ==
  \/ \E r \in AggReqs :
       /\ NoneInFlight /\ r = NextSlot /\ served < MaxBurst
       /\ \/ AggHandle(r, "ip1", FanOutBody.location, FanOutBody.userPreferences)
          \/ /\ Len(apiCallLimiter["ip1"]) \in {0, MAX_API_CALLS_PER_MINUTE}
             /\ AggHandle(r, "ip1", BurstInvalidBody.location,
                           BurstInvalidBody.userPreferences)
  \/ \E r \in AggReqs, d \in Domains :
       /\ \A e \in Before(d) : agg[r].fetch[e].st # "pending"
       /\ \E o \in BurstOutcomes(agg[r], d) : AggUpstream(r, d, o)
  \/ NoneInFlight /\ Tick(BurstInstants)

SpecBurst == InitAgg /\ [][NextBurst]_vars

\* SpecParse: the parse step of a fetcher.  The weather upstream answers
\* with any text of up to MaxTextLen tokens, the others with an object.
MaxTextLen == 4

ParseTexts == UNION {[1..n -> TextTokens] : n \in 0..MaxTextLen}

NextParse ==
  \/ \E r \in AggReqs :
       /\ NoneInFlight /\ r = NextSlot
       /\ AggArrive(r, "ip1", FanOutBody.location, FanOutBody.userPreferences)
  \/ \E r \in AggReqs, d \in Domains :
       /\ \A e \in Before(d) : agg[r].fetch[e].st # "pending"
       /\ \E o \in ProviderOutcomes(IF d = "weather" THEN ParseTexts ELSE {ObjA}) :
            o.kind = "text" /\ AggUpstream(r, d, o)

SpecParse == InitAgg /\ [][NextParse]_vars

\* SpecDay: requests for two places, with or without allergies, served one
\* at a time around midnight: one second before it and at it.  Every
\* upstream answers with an object.
DayInstants == <<0, 86399000, 86400000>>

DayBodies ==
  [location : {Location(Num("1"), Num("3"), Str("A")), Location(Num("2"), Num("3"), Str("A"))},
   userPreferences : PrefsValues]

NextDay ==
  \/ \E r \in AggReqs, b \in DayBodies :
       NoneInFlight /\ r = NextSlot /\ AggArrive(r, "ip1", b.location, b.userPreferences)
  \/ \E r \in AggReqs, d \in Domains :
       /\ \A e \in Before(d) : agg[r].fetch[e].st # "pending"
       /\ AggUpstream(r, d, [kind |-> "text", text |-> ObjA])
  \/ NoneInFlight /\ Tick(DayInstants)

SpecDay == InitAgg /\ [][NextDay]_vars

\* SpecStale: requests for one place, with or without allergies, served one
\* at a time, when the entries written at 0 are fresh, when the traffic
\* entry is about to expire, 30 s later and 300 s after that.  The weather
\* upstream may fail, stay silent until axios times out or return an
\* object; the health upstream returns an object or the text null; the
\* others return an object.
StaleInstants == <<0, 300000, 330000, 630000>>

StaleOutcomes(d) ==
  CASE d = "weather" ->
         {o \in ProviderOutcomes({ObjA}) : o.kind \in {"error", "timeout", "text"}}
    [] d = "health" ->
         {o \in ProviderOutcomes({ObjA, TxtNull}) : o.kind = "text"}
    [] OTHER ->
         {o \in ProviderOutcomes({ObjA}) : o.kind = "text"}

NextStale ==
  \/ \E r \in AggReqs, b \in ProviderBodies :
       NoneInFlight /\ r = NextSlot /\ AggArrive(r, "ip1", b.location, b.userPreferences)
  \/ \E r \in AggReqs, d \in Domains :
       /\ \A e \in Before(d) \ {"weather"} : agg[r].fetch[e].st # "pending"
       /\ \E o \in StaleOutcomes(d) : AggUpstream(r, d, o)
  \/ Tick(StaleInstants)

SpecStale == InitAgg /\ [][NextStale]_vars

\* SpecLimiter: the rate limiter alone.  One identity calls up to MaxCalls
\* times, another up to MaxOtherCalls times, at the start, one millisecond
\* before the window of the first calls closes, and when it closes.
MaxCalls == 22
MaxOtherCalls == 1

LimiterInstants == <<0, 59999, 60000>>

NextLimiter ==
  \/ \E ip \in Ips :
       /\ lim.calls[ip] < (IF ip = "ip1" THEN MaxCalls ELSE MaxOtherCalls)
       /\ LimiterCheck(ip)
  \/ Tick(LimiterInstants)

SpecLimiter == InitAgg /\ [][NextLimiter]_vars

-----------------------------------------------------------------------------
(* Claims about the chat route                                              *)

CalledBackends(c) == {c.calls[i].backend : i \in 1..Len(c.calls)}

\* C1: a request that passed validation ends in 500 only if both backends
\* were called and both failed (a failed primary is always followed by a call
\* of the other backend, whichever backend is primary).
C1_FailureOnlyAfterBothBackends ==
  \A r \in ChatReqs :
    (chat[r].pc = "done" /\ chat[r].status = 500) =>
      /\ CalledBackends(chat[r]) = Backends
      /\ \A i \in 1..Len(chat[r].calls) : chat[r].calls[i].result = "failed"

\* C3: in every 200 response, aiSource names the backend whose call returned
\* the response text.
C3_SourceIsProducer ==
  \A r \in ChatReqs :
    (chat[r].pc = "done" /\ chat[r].status = 200) =>
      /\ chat[r].producer \in Backends
      /\ chat[r].respSource = chat[r].producer

\* C3 witness: the primary (perplexity) failed and the fallback answered.
C3_Witness ==
  \E r \in ChatReqs :
    /\ chat[r].pc = "done" /\ chat[r].status = 200
    /\ chat[r].aiSource = "perplexity"
    /\ chat[r].producer = "gemini"
    /\ chat[r].response = "ok"

\* C7: in every 500 response sent after the AI calls, aiSource names the
\* backend that was attempted last.
C7_FailureNamesLastAttempt ==
  \A r \in ChatReqs :
    (chat[r].pc = "done" /\ chat[r].status = 500 /\ chat[r].calls # NoCall) =>
      chat[r].respSource = LastCall(chat[r]).backend

\* the calls of a request: at most two, no backend twice, a second call only
\* after the first has failed, and never a call left pending at the end
AtMostOneCallEach(c) ==
  /\ Len(c.calls) <= 2
  /\ \A i, j \in 1..Len(c.calls) : c.calls[i].backend = c.calls[j].backend => i = j
  /\ Len(c.calls) = 2 => c.calls[1].result = "failed"
  /\ c.pc = "done" => \A i \in 1..Len(c.calls) : c.calls[i].result # "pending"
  /\ c.pc = "done" => c.status \in {200, 400, 500}

\* C8: every chat request makes at most two AI calls, at most one to each
\* backend, the second only after the first has failed, and every request
\* that has started a call reaches a terminal 200 or 500 response.
C8_SingleFallbackHop ==
  /\ [](\A r \in ChatReqs : AtMostOneCallEach(chat[r]))
  /\ \A r \in ChatReqs :
       (chat[r].pc \in {"primary", "fallback"}) ~>
         (chat[r].pc = "done" /\ chat[r].status \in {200, 500})

\* C8 witness: a request that ended after a primary and a fallback call.
C8_Witness ==
  \E r \in ChatReqs :
    /\ chat[r].pc = "done"
    /\ Len(chat[r].calls) = 2
    /\ chat[r].calls[1].sent /\ chat[r].calls[2].sent


\* the message is missing, not a string or empty after trimming, or a JSON
\* field holds text that is not JSON, or the history parses to a non-array
MalformedChatBody(b) ==
  \/ b.message.kind # "string"
  \/ \A i \in 1..Len(b.message.text) : IsSpace(b.message.text[i])
  \/ b.conversationHistory \in {"invalid", "nonarray"}
  \/ b.userData = "invalid"

\* the malformed bodies a client can send
MalformedChatBodies == {b \in ChatBodies : MalformedChatBody(b)}

\* C13: a chat request with a malformed body is answered 400, and a request
\* answered 400 has called no AI backend.
C13_MalformedGets400 ==
  /\ [](\A r \in ChatReqs :
          chat[r].status = 400 => chat[r].pc = "done" /\ chat[r].calls = NoCall)
  /\ [][\A r \in ChatReqs :
          chat'[r] # chat[r] /\ chat[r].pc = "idle" =>
            \/ chat'[r].status = 400 /\ chat'[r].calls = NoCall
            \/ \A b \in MalformedChatBodies : chat'[r] # SendStart(b)]_vars

\* C13 witness: a request was answered 400 with no call, another was sent on
\* to a backend.
C13_Witness ==
  \E r, q \in ChatReqs :
    /\ chat[r].pc = "done" /\ chat[r].status = 400 /\ chat[r].calls = NoCall
    /\ chat[q].calls # NoCall

\* two strings that differ in the case of their letters only
SameUpToCase(a, b) ==
  /\ Len(a) = Len(b)
  /\ \A i \in 1..Len(a) :
       \/ a[i] = b[i]
       \/ \E k \in 1..Len(UPPER) : {a[i], b[i]} = {UPPER[k], LOWER[k]}

\* the capital of each small letter
Capital ==
  [c \in {LOWER[k] : k \in 1..Len(LOWER)} |->
     UPPER[CHOOSE k \in 1..Len(LOWER) : LOWER[k] = c]]

\* character a is character t of a trigger term, in either case
SpellsTermChar(a, t) == a = t \/ (t \in DOMAIN Capital /\ a = Capital[t])

\* the query holds a trigger term, in whatever case
ContainsTerm(q) ==
  \E n \in 1..Len(realTimeKeywords) :
    \E i \in 0..(Len(q) - Len(realTimeKeywords[n])) :
      \A j \in 1..Len(realTimeKeywords[n]) :
        SpellsTermChar(q[i + j], realTimeKeywords[n][j])

\* the request passed validation and was classified
Classified(c) == c.aiSource # "none"

\* C15: the classification of a request is perplexity if and only if its
\* query holds a trigger term or matches a pattern, and gemini otherwise;
\* two requests whose queries differ in letter case only are classified
\* alike, whatever was asked before.
C15_ClassifierIsPureAndCaseBlind ==
  \A r \in ChatReqs :
    Classified(chat[r]) =>
      /\ chat[r].aiSource \in Backends
      /\ chat[r].aiSource = "perplexity" <=>
           (ContainsTerm(chat[r].message) \/ timeSensitivePatterns(chat[r].message))
      /\ \A q \in ChatReqs :
           (Classified(chat[q]) /\ SameUpToCase(chat[r].message, chat[q].message)) =>
             chat[q].aiSource = chat[r].aiSource

\* C15 witness: two spellings of a query that only a pattern matches are both
\* classified perplexity.
C15_Witness ==
  \E r, q \in ChatReqs :
    /\ chat[r].message = QOpenNow /\ chat[q].message = QOpenNowLower
    /\ ~ContainsTerm(QOpenNow)
    /\ chat[r].aiSource = "perplexity" /\ chat[q].aiSource = "perplexity"

\* the requests that the clients have sent upstream for chat request c
SentRequests(c) == {c.calls[i].request : i \in {j \in 1..Len(c.calls) : c.calls[j].sent}}

\* the positions held by a sequence of positions
Range(f) == {f[i] : i \in 1..Len(f)}

\* C19: every request sent to an AI backend carries the system prompt, with
\* the history suffix in its conversation context.
C19_EveryRequestCarriesPrompt ==
  \A r \in ChatReqs :
    \A q \in SentRequests(chat[r]) :
      q.system /\ Range(q.context) = slice(chat[r].turns, 6)

\* C20: no turn older than the five most recent ones is part of a request
\* sent to an AI backend, in its message list or in its system prompt.
C20_OnlyLastFiveTurns ==
  \A r \in ChatReqs :
    \A q \in SentRequests(chat[r]) :
      \A i \in Range(q.turns) \cup Range(q.context) : i > Len(chat[r].turns) - 5

-----------------------------------------------------------------------------
(* Claims about the aggregation route                                       *)

Answered200(a) == a.pc = "done" /\ a.status = 200

\* two requests with the identical (location, userContext)
SameRequest(a, b) == a.loc = b.loc /\ a.prefs = b.prefs

\* the composite entry a request returned, named by its writer: the entry
\* the request found, or the one it wrote itself
ReturnedEntry(a) == IF a.hit THEN a.sawBy ELSE a.seq

\* b arrived after a was answered, within the composite TTL of a's answer,
\* and the entry a returned was still the one stored (no flush, no rewrite)
RepeatsWithinTtl(a, b) ==
  /\ Answered200(a)
  /\ b.pc = "done" /\ b.status \notin {400, 429}
  /\ a.seq < b.seq
  /\ SameRequest(a, b)
  /\ b.at <= a.doneAt + COMPOSITE_TTL * 1000
  /\ b.sawBy = ReturnedEntry(a)

\* C5 (as claimed): after any request has returned a snapshot, an identical
\* admitted request arriving within 5 minutes, with no flush in between,
\* returns the identical snapshot and causes no upstream request.
C5_RepeatIsIdentical ==
  \A r1, r2 \in AggReqs :
    RepeatsWithinTtl(agg[r1], agg[r2]) =>
      /\ agg[r2].body = agg[r1].body
      /\ agg[r2].called = {}

\* C5 (amended): the same, for a first request that ran the fan-out and
\* wrote its snapshot to the composite cache (5 minutes count from that
\* write, not from a later request that was itself served from the cache).
C5_RepeatAfterWriteIsIdentical ==
  \A r1, r2 \in AggReqs :
    (RepeatsWithinTtl(agg[r1], agg[r2]) /\ ~agg[r1].hit) =>
      /\ agg[r2].hit
      /\ agg[r2].body = agg[r1].body
      /\ agg[r2].called = {}

\* C5 witness: a repeat exactly 5 minutes after the write is served from the
\* composite cache.
C5_Witness ==
  \E r1, r2 \in AggReqs :
    /\ RepeatsWithinTtl(agg[r1], agg[r2]) /\ ~agg[r1].hit
    /\ agg[r2].at = agg[r1].doneAt + COMPOSITE_TTL * 1000
    /\ agg[r2].hit /\ agg[r2].body = agg[r1].body

\* C9: the location field of every returned snapshot is the address of the
\* request that receives it.
C9_LocationIsRequestAddress ==
  \A r \in AggReqs :
    Answered200(agg[r]) => agg[r].body.location = agg[r].loc.address

\* latitude, longitude or address is missing from the body
MissingLocationField(loc) ==
  \/ ~loc.given
  \/ loc.lat.type = "undefined"
  \/ loc.lng.type = "undefined"
  \/ loc.address.type = "undefined"

\* C10: a request is answered 400 if and only if latitude, longitude or
\* address is missing.
C10_BadRequestIffMissing ==
  \A r \in AggReqs :
    agg[r].pc = "done" =>
      (agg[r].status = 400 <=> MissingLocationField(agg[r].loc))

\* no contiguous part of the upstream answer is a JSON value
Unparseable(o) ==
  \/ o.kind \in {"malformed", "nontext"}
  \/ /\ o.kind = "text"
     /\ \A i, j \in 1..Len(o.text) : ~IsJson(SubSeq(o.text, i, j))

\* C2: every request that passes validation and admission is answered 200
\* with each of the six domains an object: the parsed payload or the
\* domain's default payload, never null or a value of another shape.
C2_SnapshotFullyShaped ==
  \A r \in AggReqs :
    (agg[r].pc = "done" /\ agg[r].status \notin {400, 429}) =>
      /\ agg[r].status = 200
      /\ \A d \in Domains : IsObject(SnapshotField(agg[r].body, d))

\* C6: a provider fetch never rejects, and an upstream error, an upstream
\* timeout and an unparseable upstream text each make it return the
\* domain's default payload.
C6_FetchNeverRejects ==
  \A r \in AggReqs, d \in Domains :
    LET f == agg[r].fetch[d]
    IN /\ f.st # "rejected"
       /\ (f.st = "fulfilled" /\ (f.got.kind \in {"error", "timeout"} \/ Unparseable(f.got)))
            => f.v = DefaultPayload(d)
       /\ (Answered200(agg[r]) /\ ~agg[r].hit) => SnapshotField(agg[r].body, d) = f.v

\* C6 witness: an answered request one of whose fetches met a timeout,
\* another an error and a third prose.
C6_Witness ==
  \E r \in AggReqs :
    /\ Answered200(agg[r])
    /\ agg[r].fetch["weather"].got.kind = "timeout"
    /\ agg[r].fetch["traffic"].got.kind = "error"
    /\ agg[r].fetch["health"].got = [kind |-> "text", text |-> TxtProse]
    /\ \A d \in {"weather", "traffic", "health"} :
         SnapshotField(agg[r].body, d) = DefaultPayload(d)

-----------------------------------------------------------------------------
(* Claims about both routes                                                 *)

\* the step is an arrival at /environmental-data that sends a request upstream
StartsUpstreamCalls(r) ==
  /\ served' = served + 1
  /\ agg'[r].seq = served'
  /\ agg'[r].called # {}

\* the step records an admitted call of ip at the present instant
AdmitsNow(ip) ==
  /\ apiCallLimiter'[ip] # apiCallLimiter[ip]
  /\ apiCallLimiter'[ip][Len(apiCallLimiter'[ip])] = now

\* C14: an aggregation request sends upstream requests only in a step in
\* which the limiter admits its caller, and a chat request has sent a
\* request to an AI backend only if the limiter holds an admitted call.
C14_UpstreamOnlyAfterAdmission ==
  /\ [][\A r \in DOMAIN agg : StartsUpstreamCalls(r) => AdmitsNow(agg'[r].ip)]_vars
  /\ [](\A r \in DOMAIN chat :
          (\E i \in 1..Len(chat[r].calls) : chat[r].calls[i].sent) =>
            \E ip \in DOMAIN apiCallLimiter : apiCallLimiter[ip] # <<>>)

\* C16: in production no response carries cache statistics.
C16_NoStatsInProduction ==
  env.production => ~probe.stats

\* C17: in production no 500 response of the chat route carries the text of
\* the error that caused it.
C17_NoErrorDetailInProduction ==
  \A r \in ChatReqs :
    (env.production /\ chat[r].pc = "done" /\ chat[r].status = 500) =>
      chat[r].respMessage # "detail"

-----------------------------------------------------------------------------
(* Claims about the rate limiter                                            *)

\* C4: a call of the limiter is admitted if and only if fewer than 20
\* admitted calls of the identity lie within the trailing 60000 ms; no
\* window of 60000 ms holds more than 20 admitted calls of an identity; the
\* list recorded for an identity never holds more than 20 entries; and a
\* denied identity is admitted again once the oldest entry recorded for it
\* is at least 60000 ms old.
C4_AdmitIffUnderLimit ==
  /\ lim.last.ip # "none" =>
       (lim.last.admitted <=> lim.last.prior < MAX_API_CALLS_PER_MINUTE)
  /\ \A ip \in Ips :
       /\ Len(apiCallLimiter[ip]) <= MAX_API_CALLS_PER_MINUTE
       /\ \A i \in DOMAIN lim.log[ip] :
            Cardinality(AdmitsWithin(lim.log[ip], lim.log[ip][i]))
              <= MAX_API_CALLS_PER_MINUTE
  /\ (/\ lim.last.ip # "none"
      /\ lim.last.wasDenied
      /\ lim.last.held > 0
      /\ lim.last.at - lim.last.oldest >= RATE_LIMIT_WINDOW) => lim.last.admitted

\* C4 witness: an identity with 20 recorded calls that was denied is
\* admitted exactly 60000 ms after its oldest recorded call.
C4_Witness ==
  /\ lim.last.ip # "none"
  /\ lim.last.wasDenied
  /\ lim.last.held = MAX_API_CALLS_PER_MINUTE
  /\ lim.last.at - lim.last.oldest = RATE_LIMIT_WINDOW
  /\ lim.last.admitted

\* the list recorded for an identity is the tail of its admitted calls
RecordedAreAdmitted(ip) ==
  LET held == apiCallLimiter[ip]
      log == lim.log[ip]
  IN /\ Len(held) <= Len(log)
     /\ held = SubSeq(log, Len(log) - Len(held) + 1, Len(log))

\* C12: a denied call of the limiter leaves the recorded timestamps of
\* every identity unchanged; what is recorded for an identity are admitted
\* calls only.
C12_DeniedLeavesNoTrace ==
  /\ [](\A ip \in Ips : RecordedAreAdmitted(ip))
  /\ [][(lim'.calls # lim.calls /\ ~lim'.last.admitted) =>
          apiCallLimiter' = apiCallLimiter]_vars

\* C12 witness: a call is denied while its identity holds 20 timestamps and
\* another identity holds one, and both lists are the admitted calls.
C12_Witness ==
  /\ lim.last.ip = "ip1" /\ ~lim.last.admitted
  /\ lim.last.held = MAX_API_CALLS_PER_MINUTE
  /\ Len(apiCallLimiter["ip1"]) = MAX_API_CALLS_PER_MINUTE
  /\ Len(apiCallLimiter["ip2"]) = 1
  /\ \A ip \in Ips : RecordedAreAdmitted(ip)

-----------------------------------------------------------------------------
(* Claims about the provider cache entries                                  *)

\* the step is the arrival of request r, which passes validation and
\* admission, misses the composite cache and starts the fetchers
StartsFetchers(r) ==
  /\ served' = served + 1
  /\ agg'[r].seq = served'
  /\ agg'[r].status \notin {400, 429}
  /\ ~agg'[r].hit

\* the step writes the provider entry of key
WritesEntry(key) ==
  /\ key \in DOMAIN cache'
  /\ key[1] \in Domains
  /\ key \notin DOMAIN cache \/ cache'[key] # cache[key]

\* C11: a provider entry is written with its domain's TTL, also over an
\* older entry of the key; a fetch for the key returns the entry without an
\* upstream call up to one second before its expiry and calls upstream from
\* one second after its expiry on.
C11_EntryServedUntilExpiry ==
  [][/\ \A r \in AggReqs, d \in Domains :
          LET key == agg'[r].fetch[d].key
          IN (StartsFetchers(r) /\ key \in DOMAIN cache) =>
               /\ now + 1000 <= cache[key].t =>
                    /\ d \notin agg'[r].called
                    /\ agg'[r].fetch[d].v = cache[key].v
               /\ now >= cache[key].t + 1000 => d \in agg'[r].called
     /\ \A key \in DOMAIN cache' :
          WritesEntry(key) => cache'[key].t = now + ProviderTTL(key[1]) * 1000
    ]_vars

\* the fetch of d for request a ended in an upstream error or parse failure
FetchFailed(a, d) ==
  /\ a.fetch[d].st = "fulfilled"
  /\ a.fetch[d].got.kind \in {"error", "timeout"} \/ Unparseable(a.fetch[d].got)

\* C18: a fetch that ended in an upstream error or in a parse failure has
\* written no cache entry, and no fetch is served from the cache an entry
\* that a failed fetch has written.
C18_FailedFetchWritesNothing ==
  \A r \in AggReqs, d \in Domains :
    LET key == agg[r].fetch[d].key
    IN /\ FetchFailed(agg[r], d) =>
            ~(key \in DOMAIN cache /\ cache[key].by = agg[r].seq)
       /\ (agg[r].fetch[d].got = FromCache /\ key \in DOMAIN cache) =>
            cache[key].v # DefaultPayload(d)

-----------------------------------------------------------------------------
(* Claims about requests in flight together                                 *)

\* the upstream request of provider d of request r is unanswered
Pending(r, d) == agg[r].pc = "fetching" /\ agg[r].fetch[d].st = "pending"

\* request record r takes a new request in this step
Arrives(r) == agg'[r].seq = served + 1 /\ served' = served + 1

\* request record r is answered in this step
AnsweredNow(r) == agg'[r] # agg[r] /\ agg'[r].pc = "done"

\* C21: a request that misses the composite cache has started all six
\* fetches; whatever the other fetches wait for, a pending fetch can take
\* its answer at once and then writes its entry at that instant; the
\* response is sent exactly when no fetch is pending; and every request in
\* flight is answered in the end.
C21_StuckProviderBlocksNoSibling ==
  /\ [](\A r \in AggReqs :
          /\ agg[r].pc = "fetching" =>
                /\ \A d \in Domains : agg[r].fetch[d].st \in {"pending", "fulfilled"}
                /\ \E d \in Domains : agg[r].fetch[d].st = "pending"
          /\ (agg[r].pc = "done" /\ agg[r].status = 200 /\ ~agg[r].hit) =>
                \A d \in Domains : agg[r].fetch[d].st = "fulfilled"
          /\ \A d \in Domains :
                Pending(r, d) =>
                  ENABLED AggUpstream(r, d, [kind |-> "text", text |-> ObjA]))
  /\ [][\A r \in AggReqs, d \in Domains :
          (Pending(r, d) /\ agg'[r].fetch[d].got.kind = "text") =>
            /\ agg'[r].fetch[d].key \in DOMAIN cache'
            /\ cache'[agg'[r].fetch[d].key] =
                 [v |-> agg'[r].fetch[d].v, t |-> now + ProviderTTL(d) * 1000,
                  by |-> agg[r].seq]]_vars
  /\ \A r \in AggReqs : (agg[r].pc = "fetching") ~> (agg[r].pc = "done")

\* C21 witness: a request was answered when its weather request timed out,
\* 30 seconds after it arrived, and the entries its other five fetches wrote
\* on arrival are in the cache.
C21_Witness ==
  \E r \in AggReqs :
    /\ agg[r].pc = "done" /\ agg[r].status = 200
    /\ agg[r].called = Domains
    /\ agg[r].fetch["weather"].got.kind = "timeout"
    /\ agg[r].doneAt = agg[r].at + AXIOS_TIMEOUT
    /\ \A d \in Domains \ {"weather"} :
         /\ agg[r].fetch[d].key \in DOMAIN cache
         /\ cache[agg[r].fetch[d].key].by = agg[r].seq
         /\ cache[agg[r].fetch[d].key].t = agg[r].at + ProviderTTL(d) * 1000

\* the request whose step this is
Acts(r) == agg'[r] # agg[r]

\* request r settles the fetch of provider d in this step
Settles(r, d) == Pending(r, d) /\ agg'[r].fetch[d].st # "pending"

\* C26: in every step, each cache entry is left as it was or is the whole
\* value one request writes in that step, a provider payload of a fetch
\* that settles or the snapshot the request returns; a fetch or a request
\* served from the cache returns the whole value of the entry it read; so
\* an entry always holds the value of the last write.
C26_WholeValuesLastWriteWins ==
  [][/\ \A k \in DOMAIN cache' :
          \/ k \in DOMAIN cache /\ cache'[k] = cache[k]
          \/ \E r \in AggReqs :
               /\ Acts(r) /\ cache'[k].by = agg'[r].seq
               /\ \/ \E d \in Domains :
                       /\ Settles(r, d) /\ k = agg'[r].fetch[d].key
                       /\ cache'[k].v = agg'[r].fetch[d].v
                  \/ /\ Answered200(agg'[r]) /\ k = agg'[r].ckey
                     /\ cache'[k].v = agg'[r].body
      /\ \A r \in AggReqs :
          Arrives(r) =>
            /\ agg'[r].hit => agg'[r].body = cache[agg'[r].ckey].v
            /\ \A d \in Domains :
                 agg'[r].fetch[d].got = FromCache =>
                   agg'[r].fetch[d].v = cache[agg'[r].fetch[d].key].v]_vars

\* C26 witness: two requests in flight together both called the weather
\* upstream and got different objects; the weather entry holds the object of
\* the first request, which wrote last, and the composite entry holds the
\* whole snapshot of the second request, which was answered last.
C26_Witness ==
  \E r, q \in AggReqs :
    /\ agg[r].seq = 1 /\ agg[q].seq = 2
    /\ Answered200(agg[r]) /\ Answered200(agg[q])
    /\ agg[r].called = Domains /\ agg[q].called = Domains
    /\ agg[r].fetch["weather"].v # agg[q].fetch["weather"].v
    /\ cache[agg[r].fetch["weather"].key].by = 1
    /\ cache[agg[r].fetch["weather"].key].v = agg[r].fetch["weather"].v
    /\ cache[agg[q].ckey].by = 2
    /\ cache[agg[q].ckey].v = agg[q].body
    /\ agg[q].body.weather = agg[q].fetch["weather"].v

\* C28: a request that passes validation and admission and finds no
\* composite entry runs its own fan-out, and calls the upstream of every
\* provider whose entry is not in the cache, whether or not another request
\* is waiting for that provider; the two requests make at most twelve calls.
C28_NoCoalescing ==
  /\ [](Cardinality({<<r, d>> \in AggReqs \X Domains : d \in agg[r].called}) <= 12)
  /\ [][\A r \in AggReqs :
          (Arrives(r) /\ agg'[r].status \notin {400, 429}
             /\ CompositeKey(agg'[r].loc, agg'[r].prefs) \notin DOMAIN cache) =>
            /\ ~agg'[r].hit
            /\ \A d \in Domains :
                 ProviderKey(d, agg'[r].loc, now) \notin DOMAIN cache =>
                   /\ d \in agg'[r].called
                   /\ agg'[r].fetch[d].st = "pending"]_vars

\* C28 witness: the second request arrived while the first waited for all
\* its providers; the two made twelve upstream calls and returned snapshots
\* that differ in the weather payload.
C28_Witness ==
  \E r, q \in AggReqs :
    /\ r # q /\ SameRequest(agg[r], agg[q])
    /\ Answered200(agg[r]) /\ Answered200(agg[q])
    /\ ~agg[r].hit /\ ~agg[q].hit
    /\ agg[r].called = Domains /\ agg[q].called = Domains
    /\ agg[r].body.weather # agg[q].body.weather

-----------------------------------------------------------------------------
(* Claims about bursts of requests                                          *)

\* the keys of the composite entries of a cache
CompositeKeys(c) == {k \in DOMAIN c : k[1] = "environmental_data"}

\* C22: a response 200 that follows a fan-out stores its snapshot under the
\* composite key with an expiry 300 s later, whatever it holds; a request
\* that passes validation and admission while that entry has not expired is
\* answered with the stored snapshot and starts no upstream request; a
\* response 400 or 429 changes no composite entry.
C22_DegradedSnapshotCached ==
  [][\A r \in AggReqs :
       /\ (AnsweredNow(r) /\ agg'[r].status = 200 /\ ~agg'[r].hit) =>
            /\ agg'[r].ckey \in DOMAIN cache'
            /\ cache'[agg'[r].ckey] =
                 [v |-> agg'[r].body, t |-> now + 300 * 1000, by |-> agg'[r].seq]
       /\ (Arrives(r) /\ agg'[r].status \notin {400, 429}
              /\ CompositeKey(agg'[r].loc, agg'[r].prefs) \in DOMAIN cache
              /\ cache[CompositeKey(agg'[r].loc, agg'[r].prefs)].t >= now) =>
            /\ agg'[r].pc = "done" /\ agg'[r].status = 200
            /\ agg'[r].body = cache[CompositeKey(agg'[r].loc, agg'[r].prefs)].v
            /\ agg'[r].called = {}
       /\ (AnsweredNow(r) /\ agg'[r].status \in {400, 429, 500}) =>
            /\ CompositeKeys(cache') = CompositeKeys(cache)
            /\ \A k \in CompositeKeys(cache) : cache'[k] = cache[k]]_vars

\* C22 witness: a snapshot of six default payloads was stored at 0, a
\* request 59.999 s later was answered with it and called no upstream, and
\* the request after that one was answered 429.
C22_Witness ==
  \E r, q \in AggReqs :
    /\ Answered200(agg[r]) /\ agg[r].hit /\ agg[r].at = 59999
    /\ agg[r].called = {}
    /\ \A d \in Domains : SnapshotField(agg[r].body, d) = DefaultPayload(d)
    /\ cache[agg[r].ckey].t = 300 * 1000
    /\ agg[r].body = cache[agg[r].ckey].v
    /\ agg[q].seq = agg[r].seq + 1 /\ agg[q].status = 429

\* the timestamps the limiter holds for an identity that lie within the
\* window that ends at t
HeldWithin(ip, t) ==
  {i \in DOMAIN apiCallLimiter[ip] : t - apiCallLimiter[ip][i] < 60000}

\* C27: a request answered 400 or 429 is answered in the step in which it
\* arrives, has started no fetch and called no upstream, and leaves the
\* cache as it was; a 400 also leaves the limiter as it was; an answered
\* request is never taken up again.
C27_RejectionHasNoEffect ==
  [][\A r \in AggReqs :
       /\ (AnsweredNow(r) /\ agg'[r].status \in {400, 429}) =>
            /\ Arrives(r)
            /\ agg'[r].called = {}
            /\ \A d \in Domains : agg'[r].fetch[d].st = "none"
            /\ cache' = cache
            /\ agg'[r].status = 400 => apiCallLimiter' = apiCallLimiter
       /\ (agg[r].pc = "done" /\ agg'[r] # agg[r]) => Arrives(r)]_vars

\* C27 witness: with twenty timestamps held and a snapshot cached, a request
\* was answered 400 and the next one 429, and the limiter and the cache are
\* as before.
C27_Witness ==
  \E r, q \in AggReqs :
    /\ agg[r].pc = "done" /\ agg[r].status = 400
    /\ agg[q].pc = "done" /\ agg[q].status = 429 /\ agg[q].seq = agg[r].seq + 1
    /\ Len(apiCallLimiter[agg[r].ip]) = 20
    /\ CompositeKeys(cache) # {}
    /\ agg[q].called = {}

\* C29: validation comes before admission, admission before the composite
\* lookup, the lookup before the fan-out: a request with an invalid location
\* is answered 400 whatever the limiter holds; a valid request of an
\* identity with 20 admitted requests in the last 60 s is answered 429
\* whatever the cache holds; a request answered from the composite cache has
\* added its timestamp to the limiter; a request starts fetches only after
\* a composite miss.
C29_AdmissionBeforeLookup ==
  [][\A r \in AggReqs :
       Arrives(r) =>
         LET a == agg'[r]
             full == Cardinality(HeldWithin(a.ip, now)) >= 20
             key == CompositeKey(a.loc, a.prefs)
             cached == key \in DOMAIN cache /\ cache[key].t >= now
         IN /\ a.status = 400 => apiCallLimiter' = apiCallLimiter
            /\ (a.status # 400 /\ full) => a.status = 429
            /\ (a.status # 400 /\ ~full) =>
                 /\ a.status # 429
                 /\ Len(apiCallLimiter'[a.ip]) =
                      Cardinality(HeldWithin(a.ip, now)) + 1
                 /\ apiCallLimiter'[a.ip][Len(apiCallLimiter'[a.ip])] = now
                 /\ cached => a.hit /\ a.status = 200 /\ a.called = {}
                 /\ ~cached => ~a.hit /\ a.called # {}]_vars

\* C29 witness: the 21st request, 59.999 s after the first, was answered 429
\* while its snapshot was cached; the 20 before it were admitted, the last
\* of them answered from the cache.
C29_Witness ==
  \E r, q \in AggReqs :
    /\ agg[r].seq = 21 /\ agg[r].status = 429 /\ agg[r].at = 59999
    /\ CompositeKey(agg[r].loc, agg[r].prefs) \in DOMAIN cache
    /\ cache[CompositeKey(agg[r].loc, agg[r].prefs)].t >= agg[r].at
    /\ agg[q].seq = 20 /\ agg[q].hit /\ agg[q].status = 200
    /\ Len(apiCallLimiter[agg[r].ip]) = 20
    /\ apiCallLimiter[agg[r].ip][1] = 0

-----------------------------------------------------------------------------
(* Claims about the parse step                                              *)

\* the number of "{" less the number of "}" among tokens i..j of s
Depth(s, i, j) ==
  Cardinality({m \in i..j : s[m] = "{"}) - Cardinality({m \in i..j : s[m] = "}"})

\* tokens i..j of s are a balanced object: they open with "{" and the brace
\* that closes it is token j
BalancedObject(s, i, j) ==
  /\ i < j /\ s[i] = "{" /\ s[j] = "}"
  /\ Depth(s, i, j) = 0
  /\ \A m \in i..(j - 1) : Depth(s, i, m) > 0

\* the first "{" of s opens a balanced object
HasFirstObject(s) ==
  \E i, j \in 1..Len(s) :
    BalancedObject(s, i, j) /\ \A m \in 1..(i - 1) : s[m] # "{"

\* that object
FirstObject(s) ==
  LET i == CHOOSE a \in 1..Len(s) : s[a] = "{" /\ \A m \in 1..(a - 1) : s[m] # "{"
      j == CHOOSE c \in 1..Len(s) : BalancedObject(s, i, c)
  IN SubSeq(s, i, j)

\* C24: a fetch whose upstream answered with a text whose first balanced
\* object is valid JSON returns that object, whatever stands before it and
\* whatever braces follow it; it returns the default payload only if there
\* is no such object.
C24_FirstBalancedObjectParsed ==
  \A r \in AggReqs :
    LET f == agg[r].fetch["weather"]
    IN (f.st = "fulfilled" /\ f.got.kind = "text"
          /\ HasFirstObject(f.got.text) /\ IsJson(FirstObject(f.got.text))) =>
         f.v = Json(FirstObject(f.got.text))

-----------------------------------------------------------------------------
(* Claims about the provider keys                                           *)

\* the calendar day of an instant, counted from day 0
Day(t) == t \div 86400000

\* C25: the key of a market fetch is the domain name and the calendar day of
\* the request, the key of any other fetch the domain name and the latitude
\* and longitude of the request; a fetch is served from the cache only from
\* the entry under its key, and is served from it if that entry has not
\* expired and holds an object, so a market fetch finds the entry of the
\* day whatever the coordinates and misses an entry of the day before, and
\* another fetch finds only an entry of its coordinates.
C25_MarketKeyedByDate ==
  /\ [](\A r \in AggReqs, d \in Domains :
          agg[r].fetch[d].st # "none" =>
            agg[r].fetch[d].key =
              IF d = "markets" THEN <<d, Day(agg[r].at)>>
              ELSE <<d, agg[r].loc.lat.text, agg[r].loc.lng.text>>)
  /\ [][\A r \in AggReqs, d \in Domains :
          (Arrives(r) /\ agg'[r].fetch[d].st # "none") =>
            LET today == <<"markets", Day(now)>>
                here == <<d, agg'[r].loc.lat.text, agg'[r].loc.lng.text>>
                key == IF d = "markets" THEN today ELSE here
            IN /\ agg'[r].fetch[d].got = FromCache =>
                    /\ key \in DOMAIN cache /\ cache[key].t >= now
                    /\ agg'[r].fetch[d].v = cache[key].v
               /\ (key \in DOMAIN cache /\ cache[key].t >= now
                     /\ IsObject(cache[key].v)) =>
                    agg'[r].fetch[d].got = FromCache]_vars

\* C25 witness: at midnight a request calls the market upstream although
\* the market entry written a second earlier has not expired; the request
\* before it, a second before midnight, took that entry, which a request for
\* other coordinates had written, and called the weather upstream for its
\* own coordinates.
C25_Witness ==
  \E r, q \in AggReqs :
    /\ agg[r].seq = 3 /\ agg[r].at = 86400000 /\ "markets" \in agg[r].called
    /\ <<"markets", 0>> \in DOMAIN cache /\ cache[<<"markets", 0>>].t >= 86400000
    /\ cache[<<"markets", 0>>].by = 1
    /\ agg[q].seq = 2 /\ agg[q].at = 86399000
    /\ agg[q].fetch["markets"].got = FromCache
    /\ "weather" \in agg[q].called

-----------------------------------------------------------------------------
(* Claims about the age of what is served                                   *)

\* the TTL of each domain's entries, in seconds
DomainTtl(d) ==
  CASE d = "traffic" -> 300
    [] d \in {"weather", "airQuality"} -> 600
    [] d \in {"health", "crime"} -> 1800
    [] d = "markets" -> 3600

\* request a ran a fan-out and was answered 200; its provider entries have
\* not been rewritten since
RanFanOut(a) ==
  /\ Answered200(a) /\ ~a.hit
  /\ \A d \in Domains :
       a.fetch[d].got = FromCache =>
         a.fetch[d].key \in DOMAIN cache /\ cache[a.fetch[d].key].by < a.seq

\* an instant no later than the one at which the payload of domain d in
\* the snapshot of a fan-out was written to the provider cache or produced:
\* the write of the entry the fetch read, or the arrival of the request
NotAfterOrigin(a, d) ==
  IF a.fetch[d].got = FromCache
  THEN cache[a.fetch[d].key].t - DomainTtl(d) * 1000
  ELSE a.at

\* every payload of every 200 snapshot is at the response no older than its
\* domain's TTL plus extra seconds plus the 300 s of the composite entry,
\* and lastUpdated is not after the response and at most 300 s before it
AgesWithin(extra) ==
  \A r, q \in AggReqs :
    /\ RanFanOut(agg[r]) =>
         /\ agg[r].body.lastUpdated = agg[r].doneAt
         /\ \A d \in Domains :
              agg[r].doneAt - NotAfterOrigin(agg[r], d)
                <= (DomainTtl(d) + extra + 300) * 1000
    /\ (Answered200(agg[r]) /\ agg[r].hit) =>
         /\ agg[r].body.lastUpdated <= agg[r].at
         /\ agg[r].at - agg[r].body.lastUpdated <= 300 * 1000
    /\ (Answered200(agg[r]) /\ agg[r].hit /\ RanFanOut(agg[q])
          /\ agg[r].sawBy = agg[q].seq) =>
         \A d \in Domains :
           agg[r].at - NotAfterOrigin(agg[q], d)
             <= (DomainTtl(d) + extra + 300) * 1000

\* C30 (as claimed): no payload of a 200 snapshot is older at the response
\* than its domain's TTL plus 300 s (600 s for traffic, 900 s for weather
\* and air quality, 2100 s for health and crime, 3900 s for market), and
\* lastUpdated is not after the response and at most 300 s before it.
C30_AgeWithinTtlPlusComposite == AgesWithin(0)

\* C30 (amended): the same with the 30 s that a fan-out can last added to
\* each bound: 630 s for traffic, 930 s for weather and air quality, 2130 s
\* for health and crime, 3930 s for market.
C30_AgeWithinTtlFanOutComposite == AgesWithin(30)

\* C30 witness: a traffic payload written at 0 is read 300 s later by a
\* fan-out that lasts 30 s, and the snapshot of that fan-out is served 300 s
\* after it was stored: the payload is 630 s old.
C30_Witness ==
  \E r, q \in AggReqs :
    /\ Answered200(agg[r]) /\ agg[r].hit /\ agg[r].at = 630000
    /\ RanFanOut(agg[q]) /\ agg[r].sawBy = agg[q].seq
    /\ agg[q].at = 300000 /\ agg[q].doneAt = 330000
    /\ agg[q].fetch["traffic"].got = FromCache
    /\ NotAfterOrigin(agg[q], "traffic") = 0
    /\ agg[r].body.traffic = agg[q].fetch["traffic"].v

====
